---- MODULE Spec2Model ----
(***************************************************************************)
(* Model of the Minto payment gateway (src/routes/marz.py, src/config.py). *)
(*                                                                         *)
(* Python strings are sequences of one-character strings.  The character   *)
(* "U+00B2" stands for SUPERSCRIPT TWO, a non-ASCII character for which    *)
(* str.isdigit() is true.  Handlers are modelled as invoked directly; the  *)
(* order in which the framework matches routes is not part of the model.   *)
(***************************************************************************)
EXTENDS Integers, Sequences, FiniteSets, TLC

VARIABLES
    vin,        \* raw phone_number handed to a field validator
    vcls,       \* the request class whose validator ran ("none" before)
    vout,       \* the validator's result
    pc,         \* position of the request being served
    op,         \* handler serving the request
    request,    \* the inbound request
    validated,  \* fields whose validators ran and accepted
    outbound,   \* outbound calls issued for the request, in order
    outcome,    \* what the outbound call produced
    response,   \* the gateway's answer
    handled,    \* requests answered so far by this process
    default_reference  \* default of CollectionRequest.reference, made at import

vvars == <<vin, vcls, vout>>
gvars == <<pc, op, request, validated, outbound, outcome, response, handled,
           default_reference>>
vars == <<vin, vcls, vout, pc, op, request, validated, outbound, outcome,
          response, handled, default_reference>>

(***************************************************************************)
(* Bounds                                                                  *)
(***************************************************************************)
MaxBody == 10
MaxRequests == 2

(***************************************************************************)
(* Strings                                                                 *)
(***************************************************************************)
AsciiDigits == {"0", "1", "2", "3", "4", "5", "6", "7", "8", "9"}

\* str.isdigit() on one character: true of the ASCII digits and of other
\* Unicode digit characters such as SUPERSCRIPT TWO.
isdigit(ch) == ch \in AsciiDigits \cup {"U+00B2"}

\* str.isdigit() on a string: non-empty and every character a digit.
str_isdigit(s) == Len(s) > 0 /\ \A i \in 1..Len(s) : isdigit(s[i])

startswith(s, p) == Len(s) >= Len(p) /\ SubSeq(s, 1, Len(p)) = p

Rep(ch, n) == [i \in 1..n |-> ch]

Plus256 == <<"+", "2", "5", "6">>

Ok(v) == [ok |-> TRUE, val |-> v, err |-> "none"]
Err(e) == [ok |-> FALSE, val |-> <<>>, err |-> e]

(***************************************************************************)
(* Phone number validators (one per request class, as in the source)       *)
(***************************************************************************)
cleaned_keep_all(v) == v

cleaned_of(v) == SelectSeq(v, LAMBDA ch : isdigit(ch) \/ ch = "+")

\* Variant that treats a bare 9-character number before the "0"/"256" rules.
validate_phone_number_nine_first(v) ==
    LET cleaned == cleaned_of(v)
        phone == IF startswith(cleaned, Plus256) THEN cleaned
                 ELSE IF Len(cleaned) = 9 THEN Plus256 \o cleaned
                 ELSE IF startswith(cleaned, <<"2", "5", "6">>) THEN <<"+">> \o cleaned
                 ELSE IF startswith(cleaned, <<"0">>) THEN Plus256 \o Tail(cleaned)
                 ELSE <<>>
    IN  IF phone = <<>> THEN Err("format")
        ELSE IF ~startswith(phone, Plus256) THEN Err("ugandan")
        ELSE IF Len(phone) # 13 THEN Err("length")
        ELSE IF ~str_isdigit(SubSeq(phone, 5, Len(phone))) THEN Err("digits")
        ELSE Ok(phone)

\* CollectionRequest.validate_phone_number of the /v1/pay router.
validate_phone_number(v) ==
    LET cleaned == cleaned_of(v)
        phone == IF startswith(cleaned, Plus256) THEN cleaned
                 ELSE IF startswith(cleaned, <<"2", "5", "6">>) THEN <<"+">> \o cleaned
                 ELSE IF startswith(cleaned, <<"0">>) THEN Plus256 \o Tail(cleaned)
                 ELSE IF Len(cleaned) = 9 THEN Plus256 \o cleaned
                 ELSE <<>>
    IN  IF phone = <<>> THEN Err("format")
        ELSE IF ~startswith(phone, Plus256) THEN Err("ugandan")
        ELSE IF Len(phone) # 13 THEN Err("length")
        ELSE IF ~str_isdigit(SubSeq(phone, 5, Len(phone))) THEN Err("digits")
        ELSE Ok(phone)

\* CollectionRequest.validate_phone_number of the collections app.
validate_phone_number_collect(v) ==
    LET cleaned == cleaned_of(v)
        phone == IF startswith(cleaned, Plus256) THEN cleaned
                 ELSE IF startswith(cleaned, <<"2", "5", "6">>) THEN <<"+">> \o cleaned
                 ELSE IF startswith(cleaned, <<"0">>) THEN Plus256 \o Tail(cleaned)
                 ELSE IF Len(cleaned) = 9 THEN Plus256 \o cleaned
                 ELSE <<>>
    IN  IF phone = <<>> THEN Err("format")
        ELSE IF ~startswith(phone, Plus256) THEN Err("ugandan")
        ELSE IF Len(phone) # 13 THEN Err("length")
        ELSE IF ~str_isdigit(SubSeq(phone, 5, Len(phone))) THEN Err("digits")
        ELSE Ok(phone)

\* SendMoneyRequest.validate_phone_number.
validate_phone_number_send(v) ==
    LET cleaned == cleaned_of(v)
        phone == IF startswith(cleaned, Plus256) THEN cleaned
                 ELSE IF startswith(cleaned, <<"2", "5", "6">>) THEN <<"+">> \o cleaned
                 ELSE IF startswith(cleaned, <<"0">>) THEN Plus256 \o Tail(cleaned)
                 ELSE IF Len(cleaned) = 9 THEN Plus256 \o cleaned
                 ELSE <<>>
    IN  IF phone = <<>> THEN Err("format")
        ELSE IF ~startswith(phone, Plus256) THEN Err("ugandan")
        ELSE IF Len(phone) # 13 THEN Err("length")
        ELSE IF ~str_isdigit(SubSeq(phone, 5, Len(phone))) THEN Err("digits")
        ELSE Ok(phone)

(***************************************************************************)
(* Inputs of the validator specification: a prefix followed by a run of    *)
(* "7" in which at most one position holds another character.              *)
(***************************************************************************)
Prefixes ==
    { <<>>, Plus256, <<"2", "5", "6">>, <<"0">>, <<"+">>,
      <<"+", "2", "5", "5">>, <<"2", "5">>, <<"0", "0">>, <<"1">> }

Perturb == {"-", "+", "0", "a", "U+00B2"}

Body(n, k, ch) == [i \in 1..n |-> IF i = k THEN ch ELSE "7"]

PhoneInputs ==
    { pre \o Body(n, k, ch) :
        pre \in Prefixes, n \in 5..MaxBody, k \in 0..MaxBody, ch \in Perturb }

Pending == [ok |-> FALSE, val |-> <<>>, err |-> "pending"]

(***************************************************************************)
(* Configuration (src/config.py) and module constants                      *)
(***************************************************************************)
MARZ_API_BASE_URL == "https://wallet.wearemarz.com/api/v1"

API_CREDENTIALS ==
    "bWFyel9BcXFTQmprQXhGUFhQakJCOlJnc0UwQTBvQkFpQUlpd21qNmFwTVhDaUhuYzJYY2Ru"

TIMEOUT_SECONDS == 30
AMOUNT_GE == 500
AMOUNT_LE == 10000000
REFERENCE_MAX_LEN == 50
HTTP_201_CREATED == 201
HTTP_503_SERVICE_UNAVAILABLE == 503
HTTP_500_INTERNAL_SERVER_ERROR == 500

\* Optional[str]: <<>> is None, <<s>> is the string s.
None == <<>>
Some(s) == <<s>>
\* Python truthiness of an Optional[str]: None and "" are falsy.
truthy(x) == x # None /\ x[1] # ""

(***************************************************************************)
(* Reference validation: uuid.UUID(v), then the length bound                *)
(***************************************************************************)
HexDigits == AsciiDigits \cup {"a", "b", "c", "d", "e", "f",
                               "A", "B", "C", "D", "E", "F"}

RECURSIVE str_remove(_, _)
\* s.replace(old, '')
str_remove(s, old) ==
    IF Len(s) < Len(old) THEN s
    ELSE IF SubSeq(s, 1, Len(old)) = old
         THEN str_remove(SubSeq(s, Len(old) + 1, Len(s)), old)
         ELSE <<Head(s)>> \o str_remove(Tail(s), old)

RECURSIVE str_lstrip(_, _)
str_lstrip(s, chars) ==
    IF s # <<>> /\ Head(s) \in chars THEN str_lstrip(Tail(s), chars) ELSE s

RECURSIVE str_rstrip(_, _)
str_rstrip(s, chars) ==
    IF s # <<>> /\ s[Len(s)] \in chars
    THEN str_rstrip(SubSeq(s, 1, Len(s) - 1), chars) ELSE s

str_strip(s, chars) == str_rstrip(str_lstrip(s, chars), chars)

\* int(h, 16) succeeds: surrounding blanks, an optional sign, an optional
\* 0x prefix, then hexadecimal digits, single underscores allowed between
\* digits and after the prefix.  A negative value is out of range for a UUID.
int_base16_ok(h) ==
    LET t == str_strip(h, {" "})
        signed == t # <<>> /\ Head(t) \in {"+", "-"}
        u == IF signed THEN Tail(t) ELSE t
        prefixed == Len(u) >= 2 /\ u[1] = "0" /\ u[2] \in {"x", "X"}
        d == IF prefixed THEN SubSeq(u, 3, Len(u)) ELSE u
    IN  /\ d # <<>>
        /\ \A i \in 1..Len(d) : d[i] \in HexDigits \cup {"_"}
        /\ d[Len(d)] # "_"
        /\ (d[1] = "_" => prefixed)
        /\ \A i \in 1..(Len(d) - 1) : ~(d[i] = "_" /\ d[i + 1] = "_")
        /\ ~(signed /\ Head(t) = "-" /\ \E i \in 1..Len(d) : d[i] \notin {"0", "_"})

uuid_parse_any(v) == TRUE

\* uuid.UUID(v) does not raise ValueError.
uuid_parse_ok(v) ==
    LET h1 == str_remove(str_remove(v, <<"u", "r", "n", ":">>),
                         <<"u", "u", "i", "d", ":">>)
        h2 == str_remove(str_strip(h1, {"{", "}"}), <<"-">>)
    IN  Len(h2) = 32 /\ int_base16_ok(h2)

\* Variant without the length bound.
validate_reference_no_length(v) ==
    IF ~uuid_parse_ok(v) THEN Err("uuid") ELSE Ok(v)

validate_reference(v) ==
    IF ~uuid_parse_ok(v) THEN Err("uuid")
    ELSE IF Len(v) > REFERENCE_MAX_LEN THEN Err("too_long")
    ELSE Ok(v)

amount_no_check(a) == TRUE

\* Field(..., ge=500, le=10_000_000)
amount_ok(a) == a >= AMOUNT_GE /\ a <= AMOUNT_LE

RECURSIVE str_of_int(_)
\* str(n)
str_of_int(n) ==
    LET d == <<"0", "1", "2", "3", "4", "5", "6", "7", "8", "9">>
    IN  IF n < 0 THEN <<"-">> \o str_of_int(0 - n)
        ELSE IF n < 10 THEN <<d[n + 1]>>
        ELSE str_of_int(n \div 10) \o <<d[(n % 10) + 1]>>

(***************************************************************************)
(* Request models.  Parsing a body gives the set of fields in error, the   *)
(* set of fields whose validator ran and accepted, and the parsed model.   *)
(***************************************************************************)
Parsed(errors, accepted, model) ==
    [errors |-> errors, accepted |-> accepted, model |-> model]

FieldErrors(p, a, refErr) ==
    (IF p.ok THEN {} ELSE {"phone_number"})
        \cup (IF a THEN {} ELSE {"amount"})
        \cup (IF refErr THEN {"reference"} ELSE {})

FieldAccepted(p, a, refAcc) ==
    (IF p.ok THEN {"phone_number"} ELSE {})
        \cup (IF a THEN {"amount"} ELSE {})
        \cup (IF refAcc THEN {"reference"} ELSE {})

Model(body, p, ref) ==
    [phone_number |-> p.val, amount |-> body.amount, country |-> "UG",
     reference |-> ref, description |-> body.description,
     callback_url |-> body.callback_url]

\* Variant in which an omitted reference is a missing required field.
CollectionRequest_reference_required(body, dflt) ==
    LET p == validate_phone_number(body.phone_number)
        a == amount_ok(body.amount)
        given == body.reference # None
        r == IF given THEN validate_reference(body.reference[1]) ELSE Err("missing")
    IN  Parsed(FieldErrors(p, a, ~r.ok), FieldAccepted(p, a, r.ok),
               Model(body, p, r.val))

\* CollectionRequest of the /v1/pay router: reference defaults to the value
\* made at import, and a default is not validated.
CollectionRequest(body, dflt) ==
    LET p == validate_phone_number(body.phone_number)
        a == amount_ok(body.amount)
        given == body.reference # None
        r == IF given THEN validate_reference(body.reference[1]) ELSE Ok(dflt)
    IN  Parsed(FieldErrors(p, a, given /\ ~r.ok), FieldAccepted(p, a, given /\ r.ok),
               Model(body, p, r.val))

\* CollectionRequest of the collections app: every field but the optional
\* ones is required.
CollectionRequestApp(body) ==
    LET p == validate_phone_number_collect(body.phone_number)
        a == amount_ok(body.amount)
        given == body.reference # None
        r == IF given THEN validate_reference(body.reference[1]) ELSE Err("missing")
    IN  Parsed(FieldErrors(p, a, ~r.ok), FieldAccepted(p, a, r.ok),
               Model(body, p, r.val))

SendMoneyRequest(body) ==
    LET p == validate_phone_number_send(body.phone_number)
        a == amount_ok(body.amount)
        given == body.reference # None
        r == IF given THEN validate_reference(body.reference[1]) ELSE Err("missing")
    IN  Parsed(FieldErrors(p, a, ~r.ok), FieldAccepted(p, a, r.ok),
               Model(body, p, r.val))

\* The framework's answer to a body that fails validation: 422.
validation_error_response(errors) ==
    [status |-> 422, kind |-> "json",
     body |-> [detail |-> [fields |-> errors]]]

(***************************************************************************)
(* Outbound call                                                           *)
(***************************************************************************)
basic_auth_header == "Basic " \o API_CREDENTIALS

auth_inbound_only(authorization) ==
    IF authorization # None THEN authorization[1] ELSE ""

\* initialize / verify: auth_header = f"Basic {API_CREDENTIALS}"
auth_header_fixed(authorization) == basic_auth_header

\* the other handlers: auth_header = authorization or f"Basic {API_CREDENTIALS}"
auth_header_or_default(authorization) ==
    IF truthy(authorization) THEN authorization[1] ELSE basic_auth_header

\* form_data of initialize, create_collection and send_money
form_data(m) ==
    LET base == [phone_number |-> m.phone_number,
                 amount |-> str_of_int(m.amount),
                 country |-> m.country, reference |-> m.reference]
    IN  IF truthy(m.description) /\ truthy(m.callback_url)
        THEN [phone_number |-> base.phone_number, amount |-> base.amount,
              country |-> base.country, reference |-> base.reference,
              description |-> m.description[1], callback_url |-> m.callback_url[1]]
        ELSE IF truthy(m.description)
        THEN [phone_number |-> base.phone_number, amount |-> base.amount,
              country |-> base.country, reference |-> base.reference,
              description |-> m.description[1]]
        ELSE IF truthy(m.callback_url)
        THEN [phone_number |-> base.phone_number, amount |-> base.amount,
              country |-> base.country, reference |-> base.reference,
              callback_url |-> m.callback_url[1]]
        ELSE base

NoData == [none |-> TRUE]

Call(method, path, auth, data) ==
    [method |-> method, url |-> <<MARZ_API_BASE_URL>> \o path,
     headers |-> [Authorization |-> auth], data |-> data,
     timeout |-> TIMEOUT_SECONDS]

client_send_twice(calls, call) == Append(Append(calls, call), call)

\* await client.post(...) / client.get(...): one request leaves the process.
client_send(calls, call) == Append(calls, call)

(***************************************************************************)
(* JSON values.  A string carries where its text comes from: a literal of  *)
(* the source, the provider's answer, or str(e) of a caught exception.     *)
(***************************************************************************)
Lit(text) == [type |-> "str", val |-> text, origin |-> "literal"]
FromProvider(type, text) == [type |-> type, val |-> text, origin |-> "provider"]
JNull == [type |-> "null", val |-> "null", origin |-> "literal"]

\* str(e)
str_of_exception(exc) == [type |-> "str", val |-> exc, origin |-> "exception"]

ProviderBodies ==
    { [status |-> FromProvider("str", "success"),
       message |-> FromProvider("str", "initiated"),
       data |-> FromProvider("object", "transaction")],
      [status |-> FromProvider("str", "success"),
       data |-> FromProvider("object", "transaction")],
      [status |-> FromProvider("str", "success"),
       message |-> FromProvider("str", "initiated"),
       data |-> FromProvider("object", "transaction"),
       transaction_id |-> FromProvider("str", "tx-1")],
      [message |-> FromProvider("str", "initiated"),
       data |-> FromProvider("object", "transaction")],
      [status |-> FromProvider("str", "success"),
       data |-> FromProvider("array", "services")],
      [error |-> FromProvider("str", "insufficient_funds")] }

ProviderStatuses == {200, 201, 400, 404, 500, 503}

NoJson == [none |-> FromProvider("null", "none")]

Outcomes ==
    { [kind |-> "response", status |-> st, content |-> "json", json |-> b, exc |-> "none"] :
        st \in ProviderStatuses, b \in ProviderBodies }
    \cup
    { [kind |-> "response", status |-> st, content |-> c, json |-> NoJson, exc |-> "none"] :
        st \in ProviderStatuses, c \in {"empty", "text"} }
    \cup
    { [kind |-> "transport", status |-> 0, content |-> "none", json |-> NoJson, exc |-> e] :
        e \in {"ConnectError", "ConnectTimeout", "ReadTimeout"} }
    \cup
    { [kind |-> "other", status |-> 0, content |-> "none", json |-> NoJson,
       exc |-> "RuntimeError"] }

\* httpx.Response.is_success
is_success(st) == st >= 200 /\ st <= 299

(***************************************************************************)
(* The try/except around the outbound call.  Its text is the same in all   *)
(* eight handlers.                                                         *)
(***************************************************************************)
HTTPException(code, detail) ==
    [kind |-> "HTTPException", status_code |-> code, detail |-> detail,
     value |-> NoJson, exc |-> "none"]
Returned(json) ==
    [kind |-> "return", status_code |-> 0, detail |-> NoJson, value |-> json,
     exc |-> "none"]
Unhandled(exc) ==
    [kind |-> "unhandled", status_code |-> 0, detail |-> NoJson, value |-> NoJson,
     exc |-> exc]

\* error_detail = e.response.json() if e.response.content else {"error": str(e)}
\* json() raising inside the except clause leaves the handler uncaught.
on_http_status_error(o) ==
    IF o.content = "empty"
    THEN HTTPException(o.status, [error |-> str_of_exception("HTTPStatusError")])
    ELSE IF o.content = "json"
    THEN HTTPException(o.status, o.json)
    ELSE Unhandled("JSONDecodeError")

on_request_error_as_500(o) ==
    HTTPException(HTTP_500_INTERNAL_SERVER_ERROR,
                  [error |-> Lit("An unexpected error occurred"),
                   message |-> str_of_exception(o.exc)])

on_request_error(o) ==
    HTTPException(HTTP_503_SERVICE_UNAVAILABLE,
                  [error |-> Lit("Failed to connect to Marz Pay API"),
                   message |-> str_of_exception(o.exc)])

on_exception(exc) ==
    HTTPException(HTTP_500_INTERNAL_SERVER_ERROR,
                  [error |-> Lit("An unexpected error occurred"),
                   message |-> str_of_exception(exc)])

try_except(o) ==
    CASE o.kind = "transport" -> on_request_error(o)
      [] o.kind = "other" -> on_exception(o.exc)
      [] o.kind = "response" /\ is_success(o.status) ->
            IF o.content = "json" THEN Returned(o.json)
            ELSE on_exception("JSONDecodeError")
      [] o.kind = "response" /\ ~is_success(o.status) -> on_http_status_error(o)

(***************************************************************************)
(* What the framework sends for a handler's result                         *)
(***************************************************************************)
InternalServerError ==
    [status |-> HTTP_500_INTERNAL_SERVER_ERROR, kind |-> "text",
     body |-> [text |-> Lit("Internal Server Error")]]

\* CollectionResponse: status: str, message: Optional[str] = None, data: dict
CollectionResponse_ok(j) ==
    /\ "status" \in DOMAIN j /\ j.status.type = "str"
    /\ "data" \in DOMAIN j /\ j.data.type = "object"
    /\ ("message" \in DOMAIN j => j.message.type \in {"str", "null"})

CollectionResponse_dump(j) ==
    [status |-> j.status,
     message |-> IF "message" \in DOMAIN j THEN j.message ELSE JNull,
     data |-> j.data]

send_exception(r) ==
    IF r.kind = "HTTPException"
    THEN [status |-> r.status_code, kind |-> "json", body |-> [detail |-> r.detail]]
    ELSE InternalServerError

respond_verbatim(r, code) ==
    IF r.kind = "return"
    THEN [status |-> code, kind |-> "json", body |-> r.value]
    ELSE send_exception(r)

\* a route declared with response_model=CollectionResponse
respond_with_model(r, code) ==
    IF r.kind = "return"
    THEN IF CollectionResponse_ok(r.value)
         THEN [status |-> code, kind |-> "json", body |-> CollectionResponse_dump(r.value)]
         ELSE InternalServerError
    ELSE send_exception(r)

\* a route declared without a response model
respond_plain(r, code) ==
    IF r.kind = "return"
    THEN [status |-> code, kind |-> "json", body |-> r.value]
    ELSE send_exception(r)

PostOps == {"initialize", "create_collection", "send_money"}
FixedAuthOps == {"initialize", "verify"}

(***************************************************************************)
(* Inputs of the gateway specification                                     *)
(***************************************************************************)
UUIDText(ch) ==
    Rep(ch, 8) \o <<"-">> \o Rep(ch, 4) \o <<"-", "4">> \o Rep(ch, 3)
        \o <<"-", "a">> \o Rep(ch, 3) \o <<"-">> \o Rep(ch, 12)

\* str(uuid.uuid4()) as evaluated once, when the module is imported
GeneratedUUIDs == {UUIDText("d"), UUIDText("e")}

GatewayPhones ==
    { <<"0">> \o Rep("7", 9),
      Rep("7", 9),
      Plus256 \o Rep("7", 9),
      <<"0">> \o Body(10, 4, "-"),
      <<"0">> \o Body(9, 9, "U+00B2"),
      <<"2", "5", "6">> \o Rep("7", 9),
      <<"0">> \o Body(9, 3, "+"),
      <<"0">> \o Rep("7", 8),
      <<"+", "2", "5", "5">> \o Rep("7", 9) }

GatewayAmounts == {0 - AMOUNT_GE, 0, AMOUNT_GE - 1, AMOUNT_GE, AMOUNT_LE, AMOUNT_LE + 1}

GatewayReferences ==
    { None,
      Some(UUIDText("1")),
      Some(UUIDText("g")),
      Some(Rep("a", 32) \o Rep("-", 19)),
      Some(Rep("a", 32) \o Rep("-", 18)),
      Some(<<"0", "x">> \o Rep("a", 30)),
      Some(Rep("a", 31)) }

InboundBodies ==
    [phone_number : GatewayPhones, amount : GatewayAmounts,
     reference : GatewayReferences,
     description : {None, Some(""), Some("Payment for services")},
     callback_url : {None, Some("https://your-app.com/webhook")}]

InboundAuthorization == {None, Some(""), Some("Bearer caller-token")}

Identifiers == {"c-1", "c-2"}

(***************************************************************************)
(* Validator specification: the three field validators applied to every    *)
(* input of PhoneInputs.  The gateway variables stay at their initial      *)
(* values.                                                                 *)
(***************************************************************************)
GatewayIdle ==
    /\ pc = "idle"
    /\ op = "none"
    /\ request = [kind |-> "none"]
    /\ validated = {}
    /\ outbound = <<>>
    /\ outcome = [kind |-> "none"]
    /\ response = [status |-> 0]
    /\ handled = 0
    /\ default_reference \in GeneratedUUIDs

InitValidate ==
    /\ vin \in PhoneInputs
    /\ vcls = "none"
    /\ vout = Pending
    /\ GatewayIdle

ValidateCollectionRequest ==
    /\ vcls = "none"
    /\ vcls' = "CollectionRequest"
    /\ vout' = validate_phone_number(vin)
    /\ UNCHANGED <<vin, gvars>>

ValidateCollectionRequestApp ==
    /\ vcls = "none"
    /\ vcls' = "CollectionRequestApp"
    /\ vout' = validate_phone_number_collect(vin)
    /\ UNCHANGED <<vin, gvars>>

ValidateSendMoneyRequest ==
    /\ vcls = "none"
    /\ vcls' = "SendMoneyRequest"
    /\ vout' = validate_phone_number_send(vin)
    /\ UNCHANGED <<vin, gvars>>

NextValidate ==
    \/ ValidateCollectionRequest
    \/ ValidateCollectionRequestApp
    \/ ValidateSendMoneyRequest

SpecValidate == InitValidate /\ [][NextValidate]_vars

(***************************************************************************)
(* Gateway specification                                                   *)
(***************************************************************************)
NoResponse == [status |-> 0]
NoOutcome == [kind |-> "none"]

Init ==
    /\ vin = <<>>
    /\ vcls = "none"
    /\ vout = Pending
    /\ GatewayIdle

\* A POST handler up to its await: the framework parses the body, and only
\* a valid model reaches the handler, which sends the form.
EnterPost(name, body, hdr, parsed, auth, path) ==
    /\ op' = name
    /\ request' = [kind |-> "body", body |-> body, authorization |-> hdr]
    /\ validated' = parsed.accepted
    /\ outcome' = NoOutcome
    /\ IF parsed.errors # {}
       THEN /\ response' = validation_error_response(parsed.errors)
            /\ outbound' = <<>>
            /\ pc' = "done"
       ELSE /\ response' = NoResponse
            /\ outbound' = client_send(<<>>, Call("POST", path, auth,
                                                  form_data(parsed.model)))
            /\ pc' = "awaiting"
    /\ UNCHANGED <<vvars, handled, default_reference>>

\* A GET handler up to its await.
EnterGet(name, req, auth, path) ==
    /\ op' = name
    /\ request' = req
    /\ validated' = {}
    /\ outcome' = NoOutcome
    /\ response' = NoResponse
    /\ outbound' = client_send(<<>>, Call("GET", path, auth, NoData))
    /\ pc' = "awaiting"
    /\ UNCHANGED <<vvars, handled, default_reference>>

\* A request is taken when none is being served.
Accepting == pc = "idle" /\ handled < MaxRequests

\* The handler `name` is suspended at its await.
Awaiting(name) == pc = "awaiting" /\ op = name

\* A handler from its await to the response.
Resume(name, o, resp) ==
    /\ outcome' = o
    /\ response' = resp
    /\ pc' = "done"
    /\ UNCHANGED <<vvars, op, request, validated, outbound, handled,
                   default_reference>>

initialize ==
    /\ Accepting
    /\ \E body \in InboundBodies, hdr \in InboundAuthorization :
           EnterPost("initialize", body, hdr,
                     CollectionRequest(body, default_reference),
                     auth_header_fixed(hdr), <<"collect-money">>)

initialize_resume ==
    /\ Awaiting("initialize")
    /\ \E o \in Outcomes :
           Resume("initialize", o, respond_with_model(try_except(o), HTTP_201_CREATED))

verify ==
    /\ Accepting
    /\ \E id \in Identifiers, hdr \in InboundAuthorization :
           EnterGet("verify", [kind |-> "id", id |-> id, authorization |-> hdr],
                    auth_header_fixed(hdr), <<"collect-money", id>>)

verify_resume ==
    /\ Awaiting("verify")
    /\ \E o \in Outcomes :
           Resume("verify", o, respond_plain(try_except(o), 200))

create_collection ==
    /\ Accepting
    /\ \E body \in InboundBodies, hdr \in InboundAuthorization :
           EnterPost("create_collection", body, hdr, CollectionRequestApp(body),
                     auth_header_or_default(hdr), <<"collect-money">>)

create_collection_resume ==
    /\ Awaiting("create_collection")
    /\ \E o \in Outcomes :
           Resume("create_collection", o,
                  respond_with_model(try_except(o), HTTP_201_CREATED))

get_collection ==
    /\ Accepting
    /\ \E id \in Identifiers, hdr \in InboundAuthorization :
           EnterGet("get_collection", [kind |-> "id", id |-> id, authorization |-> hdr],
                    auth_header_or_default(hdr), <<"collect-money", id>>)

get_collection_resume ==
    /\ Awaiting("get_collection")
    /\ \E o \in Outcomes :
           Resume("get_collection", o, respond_plain(try_except(o), 200))

get_services ==
    /\ Accepting
    /\ \E hdr \in InboundAuthorization :
           EnterGet("get_services", [kind |-> "bare", authorization |-> hdr],
                    auth_header_or_default(hdr), <<"collect-money", "services">>)

get_services_resume ==
    /\ Awaiting("get_services")
    /\ \E o \in Outcomes :
           Resume("get_services", o, respond_plain(try_except(o), 200))

send_money ==
    /\ Accepting
    /\ \E body \in InboundBodies, hdr \in InboundAuthorization :
           EnterPost("send_money", body, hdr, SendMoneyRequest(body),
                     auth_header_or_default(hdr), <<"send-money">>)

send_money_resume ==
    /\ Awaiting("send_money")
    /\ \E o \in Outcomes :
           Resume("send_money", o, respond_with_model(try_except(o), HTTP_201_CREATED))

get_send_money ==
    /\ Accepting
    /\ \E id \in Identifiers, hdr \in InboundAuthorization :
           EnterGet("get_send_money", [kind |-> "id", id |-> id, authorization |-> hdr],
                    auth_header_or_default(hdr), <<"send-money", id>>)

get_send_money_resume ==
    /\ Awaiting("get_send_money")
    /\ \E o \in Outcomes :
           Resume("get_send_money", o, respond_plain(try_except(o), 200))

get_send_money_services ==
    /\ Accepting
    /\ \E hdr \in InboundAuthorization :
           EnterGet("get_send_money_services", [kind |-> "bare", authorization |-> hdr],
                    auth_header_or_default(hdr), <<"send-money", "services">>)

get_send_money_services_resume ==
    /\ Awaiting("get_send_money_services")
    /\ \E o \in Outcomes :
           Resume("get_send_money_services", o,
                  respond_plain(try_except(o), 200))

\* The response is sent; nothing of the request is kept.
next_request ==
    /\ pc = "done"
    /\ pc' = "idle"
    /\ op' = "none"
    /\ request' = [kind |-> "none"]
    /\ validated' = {}
    /\ outbound' = <<>>
    /\ outcome' = NoOutcome
    /\ response' = NoResponse
    /\ handled' = handled + 1
    /\ UNCHANGED <<vvars, default_reference>>

Next ==
    \/ initialize \/ initialize_resume
    \/ verify \/ verify_resume
    \/ create_collection \/ create_collection_resume
    \/ get_collection \/ get_collection_resume
    \/ get_services \/ get_services_resume
    \/ send_money \/ send_money_resume
    \/ get_send_money \/ get_send_money_resume
    \/ get_send_money_services \/ get_send_money_services_resume
    \/ next_request

Spec == Init /\ [][Next]_vars

(***************************************************************************)
(* Properties                                                              *)
(***************************************************************************)
ValidatedFields == {"phone_number", "amount", "reference"}

ReachedGateway == pc \in {"awaiting", "done"} /\ (pc = "done" => outcome.kind # "none")

\* C1: for initialize, create_collection and send_money, a request that any
\* of the phone_number, reference and amount validators has not accepted
\* ends with a client-error status and no outbound call, and an outbound
\* call is issued only after all three validators accepted the request.
C1_ValidationBeforeOutbound ==
    op \in PostOps =>
        /\ (outbound # <<>> => validated = ValidatedFields)
        /\ (pc = "done" /\ validated # ValidatedFields =>
                /\ outbound = <<>>
                /\ response.status >= 400 /\ response.status <= 499)

\* C2: every request that reaches the gateway step has issued exactly one
\* outbound call, whatever the outcome of that call, and a request stopped
\* by validation has issued none.
C2_SingleAttempt ==
    /\ (ReachedGateway => Len(outbound) = 1)
    /\ (pc = "done" /\ outcome.kind = "none" => Len(outbound) = 0)

C2_Witness ==
    /\ pc = "done"
    /\ op = "send_money"
    /\ outcome.kind = "transport"
    /\ Len(outbound) = 1

\* C3: when the provider answers with a non-2xx status, the gateway answers
\* with that status; it carries the provider's JSON body unchanged, or a
\* wrapped error body when the provider's body is empty or not JSON.
C3_RelayUpstreamError ==
    pc = "done" /\ outcome.kind = "response" /\ ~is_success(outcome.status) =>
        /\ response.status = outcome.status
        /\ response.kind = "json"
        /\ "detail" \in DOMAIN response.body
        /\ IF outcome.content = "json"
           THEN response.body.detail = outcome.json
           ELSE "error" \in DOMAIN response.body.detail

\* C4: when the outbound call fails at the transport level (connection or
\* DNS failure, timeout), the gateway answers 503 with the error category
\* 'Failed to connect to Marz Pay API'.
C4_TransportIs503 ==
    pc = "done" /\ outcome.kind = "transport" =>
        /\ response.status = 503
        /\ response.kind = "json"
        /\ response.body.detail.error = Lit("Failed to connect to Marz Pay API")

C4_Witness ==
    /\ pc = "done"
    /\ outcome.kind = "transport"
    /\ outcome.exc = "ReadTimeout"
    /\ op = "verify"
    /\ response.status = 503

\* An exception that is neither an upstream status error nor a transport
\* error: an unexpected exception of the call, or a 2xx answer whose body
\* is not JSON.
UnexpectedFailure ==
    \/ outcome.kind = "other"
    \/ outcome.kind = "response" /\ is_success(outcome.status)
         /\ outcome.content # "json"

\* C5: an exception that is neither an upstream status error nor a
\* transport error gives status 500 with an error envelope, and no text of
\* the response body is derived from the exception.
C5_GenericInternalError ==
    pc = "done" /\ UnexpectedFailure =>
        /\ response.status = 500
        /\ response.kind = "json"
        /\ "detail" \in DOMAIN response.body
        /\ \A k \in DOMAIN response.body.detail :
               response.body.detail[k].origin # "exception"

\* C6 as stated: every outbound call carries Authorization 'Basic ' followed
\* by the configured credential, whatever the inbound request carried.
C6_AlwaysConfiguredCredential ==
    \A i \in 1..Len(outbound) :
        outbound[i].headers.Authorization = "Basic " \o API_CREDENTIALS

\* C6: initialize and verify always send 'Basic ' followed by the configured
\* credential; the six other handlers send the inbound Authorization header
\* when it is present and not empty, and the configured one otherwise.
C6_AuthorizationHeader ==
    \A i \in 1..Len(outbound) :
        outbound[i].headers.Authorization =
            IF op \in FixedAuthOps \/ request.authorization \in {None, Some("")}
            THEN "Basic " \o API_CREDENTIALS
            ELSE request.authorization[1]

C6_Witness ==
    /\ op = "create_collection"
    /\ Len(outbound) = 1
    /\ request.authorization = Some("Bearer caller-token")
    /\ outbound[1].headers.Authorization = "Bearer caller-token"

SuccessWithJson ==
    /\ pc = "done"
    /\ op \in PostOps
    /\ outcome.kind = "response"
    /\ is_success(outcome.status)
    /\ outcome.content = "json"

\* C7 as stated: when the provider answers 2xx with a JSON body, the body of
\* the response of initialize, create_collection and send_money equals the
\* provider's body.
C7_VerbatimBody ==
    SuccessWithJson => response.body = outcome.json

FitsCollectionResponse(j) ==
    /\ {"status", "data"} \subseteq DOMAIN j
    /\ j.status.type = "str"
    /\ j.data.type = "object"
    /\ ("message" \in DOMAIN j => j.message.type \in {"str", "null"})

\* C7: when the provider answers 2xx with a JSON body that has a string
\* status and a mapping data, the response is 201 and its body is exactly
\* the provider's status, message (null when the provider sent none) and
\* data; any other field is dropped.  Otherwise the response is a 500.
C7_ResponseModelBody ==
    SuccessWithJson =>
        IF FitsCollectionResponse(outcome.json)
        THEN /\ response.status = 201
             /\ DOMAIN response.body = {"status", "message", "data"}
             /\ response.body.status = outcome.json.status
             /\ response.body.data = outcome.json.data
             /\ response.body.message =
                    IF "message" \in DOMAIN outcome.json
                    THEN outcome.json.message ELSE JNull
        ELSE /\ response.status = 500
             /\ response.kind = "text"

C7_Witness ==
    /\ SuccessWithJson
    /\ "transaction_id" \in DOMAIN outcome.json
    /\ response.status = 201
    /\ "transaction_id" \notin DOMAIN response.body

\* C8: the phone_number of every outbound form payload is 13 characters:
\* '+256' followed by exactly 9 digits 0-9.
C8_OutboundPhoneShape ==
    \A i \in 1..Len(outbound) :
        op \in PostOps =>
            LET ph == outbound[i].data.phone_number
            IN  /\ Len(ph) = 13
                /\ SubSeq(ph, 1, 4) = <<"+", "2", "5", "6">>
                /\ \A k \in 5..Len(ph) : ph[k] \in AsciiDigits

NineDigits(v) == Len(v) = 9 /\ \A i \in 1..9 : v[i] \in AsciiDigits

\* C9 as stated: every string of exactly 9 digits is accepted and gives
\* '+256' followed by the input.
C9_EveryNineDigits ==
    vcls # "none" /\ NineDigits(vin) => vout = Ok(<<"+", "2", "5", "6">> \o vin)

\* C9: a string of exactly 9 digits that starts neither with '0' nor with
\* '256' is accepted and gives '+256' followed by the input; one that starts
\* with '0' or '256' is rejected for its length.
C9_NineDigitsNoPrefix ==
    vcls # "none" /\ NineDigits(vin) =>
        IF vin[1] = "0" \/ SubSeq(vin, 1, 3) = <<"2", "5", "6">>
        THEN vout = Err("length")
        ELSE vout = Ok(<<"+", "2", "5", "6">> \o vin)

C9_Witness ==
    /\ vcls = "SendMoneyRequest"
    /\ NineDigits(vin)
    /\ vout = Ok(<<"+", "2", "5", "6">> \o vin)

DigitChars == AsciiDigits \cup {"U+00B2"}

AllDigits(s) == \A i \in 1..Len(s) : s[i] \in DigitChars

\* One of the four accepted input shapes.
AcceptedShape(c) ==
    \/ Len(c) = 13 /\ SubSeq(c, 1, 4) = <<"+", "2", "5", "6">>
         /\ AllDigits(SubSeq(c, 5, 13))
    \/ Len(c) = 12 /\ SubSeq(c, 1, 3) = <<"2", "5", "6">> /\ AllDigits(c)
    \/ Len(c) = 10 /\ c[1] = "0" /\ AllDigits(c)
    \/ Len(c) = 9 /\ AllDigits(c) /\ c[1] # "0"
         /\ SubSeq(c, 1, 3) # <<"2", "5", "6">>

\* C10 as stated: an input that is not of one of the four accepted shapes
\* (wrong length, a character that is neither a digit nor a leading plus
\* sign, an unrecognized prefix) is rejected.
C10_MalformedRejected ==
    vcls # "none" /\ ~AcceptedShape(vin) => ~vout.ok

\* C10: characters other than digits and '+' are dropped first; the input
\* is rejected exactly when what remains is not of one of the four accepted
\* shapes.
C10_RejectedIffCleanedMalformed ==
    vcls # "none" =>
        (vout.ok <=>
            AcceptedShape(SelectSeq(vin, LAMBDA ch : ch \in DigitChars \cup {"+"})))

C10_Witness ==
    /\ vcls = "CollectionRequest"
    /\ \E i \in 1..Len(vin) : vin[i] = "-"
    /\ vout.ok

\* A POST request reaches the handler only with an accepted phone number:
\* when what remains of phone_number after cleaning is of no accepted
\* shape, the answer is 422 naming phone_number and nothing is sent.
RejectedPhoneNeverSent ==
    op \in PostOps /\ pc \in {"awaiting", "done"} =>
        IF AcceptedShape(SelectSeq(request.body.phone_number,
                                   LAMBDA ch : ch \in DigitChars \cup {"+"}))
        THEN "phone_number" \in validated
        ELSE /\ pc = "done"
             /\ response.status = 422
             /\ "phone_number" \in response.body.detail.fields
             /\ outbound = <<>>

\* A POST request with a field in error is answered 422 and nothing is sent.
RejectedFieldsNeverSent ==
    op \in PostOps /\ pc = "done" /\ outcome.kind = "none" =>
        /\ response.status = 422
        /\ response.body.detail.fields # {}
        /\ response.body.detail.fields \cap validated = {}
        /\ outbound = <<>>

\* The references of the model, supplied or generated, that uuid.UUID
\* parses and that have at most 50 characters.
WellFormedReferences ==
    { r \in {g[1] : g \in GatewayReferences \ {None}} \cup GeneratedUUIDs :
        uuid_parse_ok(r) /\ Len(r) <= 50 }

\* C11: a supplied reference that uuid.UUID parses and that has at most 50
\* characters is accepted and forwarded as the same string; any other
\* supplied reference is rejected with an error on reference and nothing is
\* sent; every reference sent parses as a UUID and has at most 50 characters.
C11_ReferenceValidated ==
    op \in PostOps /\ pc \in {"awaiting", "done"} =>
        /\ request.body.reference # None =>
              IF request.body.reference[1] \in WellFormedReferences
              THEN /\ "reference" \in validated
                   /\ \A i \in 1..Len(outbound) :
                          outbound[i].data.reference = request.body.reference[1]
              ELSE /\ pc = "done"
                   /\ response.status = 422
                   /\ "reference" \in response.body.detail.fields
                   /\ outbound = <<>>
        /\ \A i \in 1..Len(outbound) :
              outbound[i].data.reference \in WellFormedReferences

C11_Witness ==
    /\ op = "send_money"
    /\ pc = "done"
    /\ request.body.reference # None
    /\ Len(request.body.reference[1]) = 50
    /\ Len(outbound) = 1
    /\ outbound[1].data.reference = request.body.reference[1]

DigitValue(ch) ==
    CHOOSE d \in 0..9 : <<"0", "1", "2", "3", "4", "5", "6", "7", "8", "9">>[d + 1] = ch

RECURSIVE DecimalValue(_)
\* The number a string of digits 0-9 denotes.
DecimalValue(s) ==
    IF s = <<>> THEN 0
    ELSE 10 * DecimalValue(SubSeq(s, 1, Len(s) - 1)) + DigitValue(s[Len(s)])

\* A decimal numeral without sign or leading zero.
IsDecimalString(s) ==
    /\ Len(s) >= 1
    /\ \A i \in 1..Len(s) : s[i] \in AsciiDigits
    /\ (Len(s) > 1 => s[1] # "0")

\* C12: an integer amount is accepted exactly when it is at least 500 and at
\* most 10,000,000; an accepted amount is the amount of the outbound form
\* payload, written as its decimal string, and a rejected one gives an error
\* on amount and no outbound call.
C12_AmountBounds ==
    op \in PostOps /\ pc \in {"awaiting", "done"} =>
        IF 500 <= request.body.amount /\ request.body.amount <= 10000000
        THEN /\ "amount" \in validated
             /\ \A i \in 1..Len(outbound) :
                    /\ IsDecimalString(outbound[i].data.amount)
                    /\ DecimalValue(outbound[i].data.amount) = request.body.amount
        ELSE /\ pc = "done"
             /\ response.status = 422
             /\ "amount" \in response.body.detail.fields
             /\ outbound = <<>>

C12_Witness ==
    /\ op = "initialize"
    /\ pc = "awaiting"
    /\ request.body.amount = 10000000
    /\ Len(outbound) = 1
    /\ outbound[1].data.amount = <<"1", "0", "0", "0", "0", "0", "0", "0">>

OmitsReference ==
    /\ op = "initialize"
    /\ pc \in {"awaiting", "done"}
    /\ request.body.reference = None

\* An initialize request without reference is never rejected on account of
\* reference; when its phone_number and amount are accepted it is forwarded
\* with the default made at import, which validate_reference has not seen.
DefaultReferenceForwarded ==
    OmitsReference =>
        /\ "reference" \notin validated
        /\ IF {"phone_number", "amount"} \subseteq validated
           THEN /\ Len(outbound) = 1
                /\ outbound[1].data.reference = default_reference
           ELSE /\ pc = "done"
                /\ "reference" \notin response.body.detail.fields

\* C13: on initialize a request that omits reference is not rejected for it
\* but forwarded with the default reference, unvalidated; that default is
\* made once and never changes, so every such payload of the process
\* carries the same reference.
C13_SameDefaultReference ==
    /\ []DefaultReferenceForwarded
    /\ [][default_reference' = default_reference]_vars

C13_Witness ==
    /\ OmitsReference
    /\ handled = 1
    /\ Len(outbound) = 1
    /\ outbound[1].data.reference = default_reference
    /\ validated = {"phone_number", "amount"}
====
